---- MODULE Spec2Model ----
(***************************************************************************)
(* Model of the px4 crate's module entry harness (px4::_run and the        *)
(* MainStatusCode trait, src/px4/src/lib.rs), together with the logging    *)
(* sink and the uORB publish/subscribe handles the crate documents.        *)
(*                                                                         *)
(* Two specifications share the module:                                    *)
(*   Spec     the host repeatedly calling _run for a loaded module;        *)
(*   OrbSpec  user code driving Publisher / Subscriber handles of one      *)
(*            topic (debug_value) on the host bus.                         *)
(***************************************************************************)
EXTENDS Integers, Sequences, FiniteSets, TLC

\* ------------------------------------------------------------------ bounds

\* Longest argument vector the host passes (argc ranges over 0..MaxArgs).
MaxArgs == 3

\* Most Publisher handles, and most Subscriber handles, user code creates.
MaxHandles == 2

\* ------------------------------------------------------------- value sets

\* The range of i32.
I32Max == 2147483646 + 1
I32Min == -I32Max - 1

\* Sample i32 values a user function returns or fails with.
I32Samples == {I32Min, -1, 0, 1, I32Max}

\* Module identifiers the px4_module_main macro passes to _run.
ModuleNames == {"mod_a", "mod_b"}

\* Texts (without their terminator) the host loader places in memory:
\* "", "A", e-acute (C3 A9), the euro sign (E2 82 AC), a truncated two-byte
\* sequence (C3), and "A" followed by a byte no UTF-8 text contains (FF).
ArgTexts == {<< >>, <<65>>, <<195, 169>>, <<226, 130, 172>>, <<195>>, <<65, 255>>}

RECURSIVE SeqsUpTo(_, _)
SeqsUpTo(S, n) ==
    IF n = 0 THEN {<< >>}
    ELSE LET shorter == SeqsUpTo(S, n - 1)
         IN  shorter \cup {Append(s, x) : s \in {t \in shorter : Len(t) = n - 1}, x \in S}

\* Argument vectors of length 0..MaxArgs.
ArgVectors == SeqsUpTo(ArgTexts, MaxArgs)

\* Return types R of the user function: the four implementations of
\* MainStatusCode in the crate, and three user-defined implementations:
\* one overriding panic_status_code, one whose to_status_code panics, and
\* one whose panic_status_code panics.
BuiltinTypes == {"unit", "i32", "result_unit", "result_i32"}
UserTypes == {"user_override", "user_to_panics", "user_psc_panics"}
ReturnTypes == BuiltinTypes \cup UserTypes

\* Values of each return type.
RetValues(r) ==
    CASE r = "unit"        -> {[tag |-> "unit", n |-> 0]}
      [] r = "i32"         -> {[tag |-> "int", n |-> k] : k \in I32Samples}
      [] r = "result_unit" -> {[tag |-> "ok", n |-> 0], [tag |-> "err_unit", n |-> 0]}
      [] r = "result_i32"  -> {[tag |-> "ok", n |-> 0]}
                                \cup {[tag |-> "err", n |-> k] : k \in I32Samples}
      [] OTHER             -> {[tag |-> "user", n |-> 7]}

NoRet == [tag |-> "none", n |-> 0]

\* ------------------------------------------------------- host memory layout

\* The host's memory image of an argument vector: every text followed by its
\* NUL terminator, laid out back to back.
RECURSIVE HostMemory(_)
HostMemory(texts) ==
    IF texts = << >> THEN << >>
    ELSE Head(texts) \o <<0>> \o HostMemory(Tail(texts))

\* argv: the address (1-based offset into the memory image) of each text.
RECURSIVE HostArgv(_, _)
HostArgv(texts, base) ==
    IF texts = << >> THEN << >>
    ELSE <<base>> \o HostArgv(Tail(texts), base + Len(Head(texts)) + 1)

\* ------------------------------------------------- decoding one argument

\* CStr::from_ptr: the bytes from address p up to, not including, the first NUL.
RECURSIVE from_ptr(_, _)
from_ptr(m, p) ==
    IF p > Len(m) \/ m[p] = 0 THEN << >>
    ELSE <<m[p]>> \o from_ptr(m, p + 1)

IsCont(b) == b >= 128 /\ b <= 191

\* UTF-8 validation as CStr::to_str performs it.
RECURSIVE ValidUtf8(_, _)
ValidUtf8(s, k) ==
    IF k > Len(s) THEN TRUE
    ELSE LET b == s[k]
             has(j) == k + j <= Len(s) /\ IsCont(s[k + j])
         IN  CASE b < 128 -> ValidUtf8(s, k + 1)
               [] b >= 194 /\ b <= 223 -> has(1) /\ ValidUtf8(s, k + 2)
               [] b >= 224 /\ b <= 239 ->
                    /\ has(1) /\ has(2)
                    /\ (b = 224 => s[k + 1] >= 160)
                    /\ (b = 237 => s[k + 1] <= 159)
                    /\ ValidUtf8(s, k + 3)
               [] b >= 240 /\ b <= 244 ->
                    /\ has(1) /\ has(2) /\ has(3)
                    /\ (b = 240 => s[k + 1] >= 144)
                    /\ (b = 244 => s[k + 1] <= 143)
                    /\ ValidUtf8(s, k + 4)
               [] OTHER -> FALSE

\* A decoder that accepts every byte string (from_utf8_unchecked).
to_str_unchecked(s) == [ok |-> TRUE, str |-> s]

\* CStr::to_str: Ok(the text) for valid UTF-8, Err otherwise.
to_str(s) == [ok |-> ValidUtf8(s, 1), str |-> s]

\* ------------------------------------------------------- MainStatusCode

Code(n) == [tag |-> "code", code |-> n]
Panics == [tag |-> "panic", code |-> 0]

\* An implementation for Result<(), ()> that maps Err to 0 as well.
to_status_code_err_zero(r, v) ==
    CASE r = "unit"           -> Code(0)
      [] r = "i32"            -> Code(v.n)
      [] r = "result_unit"    -> Code(0)
      [] r = "result_i32"     -> IF v.tag = "ok" THEN Code(0) ELSE Code(v.n)
      [] r = "user_to_panics" -> Panics
      [] OTHER                -> Code(v.n)

\* MainStatusCode::to_status_code for each return type.
to_status_code(r, v) ==
    CASE r = "unit"           -> Code(0)
      [] r = "i32"            -> Code(v.n)
      [] r = "result_unit"    -> IF v.tag = "ok" THEN Code(0) ELSE Code(1)
      [] r = "result_i32"     -> IF v.tag = "ok" THEN Code(0) ELSE Code(v.n)
      [] r = "user_to_panics" -> Panics
      [] OTHER                -> Code(v.n)

\* A default panic status of 1 instead of -1.
panic_status_code_one(r) ==
    CASE r = "user_override"   -> Code(101)
      [] r = "user_psc_panics" -> Panics
      [] OTHER                 -> Code(1)

\* MainStatusCode::panic_status_code: -1 unless the type overrides it.
panic_status_code(r) ==
    CASE r = "user_override"   -> Code(101)
      [] r = "user_psc_panics" -> Panics
      [] OTHER                 -> Code(-1)

\* Result::unwrap_or_default: 0 in place of the given default.
unwrap_or_zero(res, default) == IF res.ok THEN res.code ELSE 0

\* Result::unwrap_or on the result of catch_unwind.
unwrap_or(res, default) == IF res.ok THEN res.code ELSE default

\* ------------------------------------------------------------------ state

VARIABLES
    pc,          \* position of the host / _run: idle, entered, decode, in_f,
                 \* caught, returned, escaped
    modulename,  \* _run's modulename parameter
    hostArgs,    \* the texts the host passed (the argument vector)
    mem,         \* host memory holding the NUL-terminated texts
    argv,        \* _run's argv: the address of each text
    argc,        \* _run's argc
    R,           \* the return type of the user function
    i,           \* loop index of the decoding loop
    args,        \* the Vec<&str> under construction
    argvReads,   \* how many elements of argv this invocation has read
    fCalls,      \* how often this invocation has entered the user function
    fArgs,       \* the slice the user function received
    ret,         \* the value the user function returned
    cause,       \* why the closure unwound: none, decode, user, convert
    result,      \* what catch_unwind returned: Ok(code) or Err(payload)
    status,      \* the i32 _run returned to the host
    prev,        \* how the preceding invocation ended: none (there was
                 \* none), normal, or the cause of its panic
    logger,      \* process-wide logging sink: the module it is set up for
    hook,        \* whether the sink's panic hook is installed
    log,         \* records sent through the sink during this invocation
    topic,       \* host bus: latest value of topic debug_value (bytes)
    advertised,  \* host bus: number of live advertisements of the topic
    pubs,        \* Publisher handles: none, open, closed
    subs,        \* Subscriber handles: none, open, closed
    lastPub,     \* the value of the latest successful publish
    prevPub,     \* the value of the successful publish before that
    lastOp       \* the latest uORB operation and what it returned

runVars == <<pc, modulename, hostArgs, mem, argv, argc, R, i, args, argvReads,
             fCalls, fArgs, ret, cause, result, status, prev, logger, hook, log>>

orbVars == <<topic, advertised, pubs, subs, lastPub, prevPub, lastOp>>

vars == <<runVars, orbVars>>

NoResult == [set |-> FALSE, ok |-> FALSE, code |-> 0]
Ok(n) == [set |-> TRUE, ok |-> TRUE, code |-> n]
Err == [set |-> TRUE, ok |-> FALSE, code |-> 0]

\* ----------------------------------------------------------- logging sink

\* logging::init(modulename): sets the process-wide sink up for the module
\* and installs the panic hook that reports through the sink.
logging_init(m) == [logger |-> m, hook |-> TRUE]

\* The panic hook: the panic's message is sent through the sink at the
\* moment of the panic, before unwinding starts.  Without the hook the
\* message goes to the process's standard error, not to the sink.
panic_hook(l, msg) ==
    IF hook THEN Append(l, [level |-> "panic", module |-> logger, msg |-> msg])
    ELSE l

\* ------------------------------------------------------------ uORB state

\* debug_value.msg: uint64 timestamp, float32 value, uint8 ind.  A field
\* is held as its little-endian bytes.
Msg(t, v, n) == [timestamp |-> t, value |-> v, ind |-> n]

NoMsg == Msg(<< >>, << >>, << >>)

\* {0, 1.0, 3}, {100, -2.5, 7}, the all-zero value and the all-maximum value
\* (u64::MAX, f32::MAX, u8::MAX).
Messages ==
    { Msg(<<0, 0, 0, 0, 0, 0, 0, 0>>, <<0, 0, 128, 63>>, <<3>>),
      Msg(<<100, 0, 0, 0, 0, 0, 0, 0>>, <<0, 0, 32, 192>>, <<7>>),
      Msg(<<0, 0, 0, 0, 0, 0, 0, 0>>, <<0, 0, 0, 0>>, <<0>>),
      Msg(<<255, 255, 255, 255, 255, 255, 255, 255>>, <<255, 255, 127, 127>>, <<255>>) }

\* The fixed layout the bus carries: timestamp at offset 0, value at 8, ind
\* at 12, padded to 16 bytes.
Encode(m) == m.timestamp \o m.value \o m.ind \o <<0, 0, 0>>

Decode(b) == Msg(SubSeq(b, 1, 8), SubSeq(b, 9, 12), SubSeq(b, 13, 13))

NoOp == [op |-> "none", handle |-> 0, res |-> "none", value |-> NoMsg]

Op(o, h, r, v) == [op |-> o, handle |-> h, res |-> r, value |-> v]

OrbInit ==
    /\ topic = << >>
    /\ advertised = 0
    /\ pubs = << >>
    /\ subs = << >>
    /\ lastPub = NoMsg
    /\ prevPub = NoMsg
    /\ lastOp = NoOp

\* ------------------------------------------------------------------- Init

\* The module is loaded, the host has not called its entry point yet, the
\* logging sink is not set up and nothing exists on the bus.
Init ==
    /\ pc = "idle"
    /\ modulename = "mod_a"
    /\ hostArgs = << >>
    /\ mem = << >>
    /\ argv = << >>
    /\ argc = 0
    /\ R = "unit"
    /\ i = 0
    /\ args = << >>
    /\ argvReads = 0
    /\ fCalls = 0
    /\ fArgs = << >>
    /\ ret = NoRet
    /\ cause = "none"
    /\ result = NoResult
    /\ status = 0
    /\ prev = "none"
    /\ logger = "none"
    /\ hook = FALSE
    /\ log = << >>
    /\ OrbInit

\* ------------------------------------------------------------------- _run

\* The host calls the module's entry point: the exported function passes
\* its module identifier, the host's argc / argv and the user function
\* (of return type R) to _run.
HostCall ==
    /\ pc = "idle"
    /\ \E m \in ModuleNames, texts \in ArgVectors, r \in ReturnTypes :
        /\ modulename' = m
        /\ hostArgs' = texts
        /\ mem' = HostMemory(texts)
        /\ argv' = HostArgv(texts, 1)
        /\ argc' = Len(texts)
        /\ R' = r
    /\ pc' = "entered"
    /\ UNCHANGED <<i, args, argvReads, fCalls, fArgs, ret, cause, result, status,
                   prev, logger, hook, log, orbVars>>

\* The host takes the status and goes on; the invocation's frame, its
\* argument memory and its log lines are gone, the process-wide sink stays.
HostResume ==
    /\ pc = "returned"
    /\ prev' = IF result.ok THEN "normal" ELSE cause
    /\ pc' = "idle"
    /\ modulename' = "mod_a"
    /\ hostArgs' = << >>
    /\ mem' = << >>
    /\ argv' = << >>
    /\ argc' = 0
    /\ R' = "unit"
    /\ i' = 0
    /\ args' = << >>
    /\ argvReads' = 0
    /\ fCalls' = 0
    /\ fArgs' = << >>
    /\ ret' = NoRet
    /\ cause' = "none"
    /\ result' = NoResult
    /\ status' = 0
    /\ log' = << >>
    /\ UNCHANGED <<logger, hook, orbVars>>

\* _run without its first statement: the closure is entered with the sink
\* left as the previous invocation left it.
RunInitSkipped ==
    /\ pc = "entered"
    /\ pc' = "decode"
    /\ i' = 0
    /\ args' = << >>
    /\ UNCHANGED <<modulename, hostArgs, mem, argv, argc, R, argvReads, fCalls,
                   fArgs, ret, cause, result, status, prev, logger, hook, log,
                   orbVars>>

\* logging::init(modulename), then catch_unwind enters the closure, which
\* allocates the empty args vector.
RunInit ==
    /\ pc = "entered"
    /\ logger' = logging_init(modulename).logger
    /\ hook' = logging_init(modulename).hook
    /\ pc' = "decode"
    /\ i' = 0
    /\ args' = << >>
    /\ UNCHANGED <<modulename, hostArgs, mem, argv, argc, R, argvReads, fCalls,
                   fArgs, ret, cause, result, status, prev, log, orbVars>>

\* The closure unwinds with a panic: the hook runs first, then catch_unwind
\* returns Err(payload).
Unwind(why, msg) ==
    /\ cause' = why
    /\ log' = panic_hook(log, msg)
    /\ result' = Err
    /\ pc' = "caught"

\* One iteration of the loop that pushes every argument in front of the
\* ones decoded so far.
DecodeArgReversed ==
    /\ pc = "decode"
    /\ i < argc
    /\ argvReads' = argvReads + 1
    /\ LET s == to_str(from_ptr(mem, argv[i + 1]))
       IN  IF s.ok
           THEN /\ args' = <<s.str>> \o args
                /\ i' = i + 1
                /\ UNCHANGED <<pc, cause, result, log>>
           ELSE /\ Unwind("decode", "Invalid UTF-8 in arguments.")
                /\ UNCHANGED <<i, args>>
    /\ UNCHANGED <<modulename, hostArgs, mem, argv, argc, R, fCalls, fArgs, ret,
                   status, prev, logger, hook, orbVars>>

\* One iteration of `for i in 0..argc`: read argv[i], take the C string at
\* that address, validate it and push it, or panic on invalid UTF-8.
DecodeArg ==
    /\ pc = "decode"
    /\ i < argc
    /\ argvReads' = argvReads + 1
    /\ LET s == to_str(from_ptr(mem, argv[i + 1]))
       IN  IF s.ok
           THEN /\ args' = Append(args, s.str)
                /\ i' = i + 1
                /\ UNCHANGED <<pc, cause, result, log>>
           ELSE /\ Unwind("decode", "Invalid UTF-8 in arguments.")
                /\ UNCHANGED <<i, args>>
    /\ UNCHANGED <<modulename, hostArgs, mem, argv, argc, R, fCalls, fArgs, ret,
                   status, prev, logger, hook, orbVars>>

\* The loop is over: f(&args) enters the user function.
CallF ==
    /\ pc = "decode"
    /\ i = argc
    /\ fCalls' = fCalls + 1
    /\ fArgs' = args
    /\ pc' = "in_f"
    /\ UNCHANGED <<modulename, hostArgs, mem, argv, argc, R, i, args, argvReads,
                   ret, cause, result, status, prev, logger, hook, log, orbVars>>

\* The user function panics.
FPanic ==
    /\ pc = "in_f"
    /\ Unwind("user", "Bye!")
    /\ UNCHANGED <<modulename, hostArgs, mem, argv, argc, R, i, args, argvReads,
                   fCalls, fArgs, ret, status, prev, logger, hook, orbVars>>

\* The user function returns v and the closure converts it with
\* to_status_code, inside catch_unwind: a panic of the conversion unwinds
\* the closure like any other.
FReturn ==
    /\ pc = "in_f"
    /\ \E v \in RetValues(R) :
        /\ ret' = v
        /\ LET c == to_status_code(R, v)
           IN  IF c.tag = "panic"
               THEN Unwind("convert", "to_status_code")
               ELSE /\ result' = Ok(c.code)
                    /\ pc' = "caught"
                    /\ UNCHANGED <<cause, log>>
    /\ UNCHANGED <<modulename, hostArgs, mem, argv, argc, R, i, args, argvReads,
                   fCalls, fArgs, status, prev, logger, hook, orbVars>>

\* catch_unwind has returned.  R::panic_status_code() is the argument of
\* unwrap_or, so it is evaluated here, outside catch_unwind and whatever
\* the result is; a panic raised by it unwinds out of _run.
RunReturn ==
    /\ pc = "caught"
    /\ LET d == panic_status_code(R)
       IN  IF d.tag = "panic"
           THEN /\ log' = panic_hook(log, "panic_status_code")
                /\ pc' = "escaped"
                /\ UNCHANGED status
           ELSE /\ status' = unwrap_or(result, d.code)
                /\ pc' = "returned"
                /\ UNCHANGED log
    /\ UNCHANGED <<modulename, hostArgs, mem, argv, argc, R, i, args, argvReads,
                   fCalls, fArgs, ret, cause, result, prev, logger, hook, orbVars>>

Next ==
    \/ HostCall
    \/ HostResume
    \/ RunInit
    \/ DecodeArg
    \/ CallF
    \/ FPanic
    \/ FReturn
    \/ RunReturn

Spec == Init /\ [][Next]_vars

\* ------------------------------------------------------------------- uORB

\* advertise(): a new Publisher handle, or a Host-Resource error.
OrbAdvertise ==
    /\ Len(pubs) < MaxHandles
    /\ \E ok \in BOOLEAN :
        IF ok
        THEN /\ pubs' = Append(pubs, "open")
             /\ advertised' = advertised + 1
             /\ lastOp' = Op("advertise", Len(pubs) + 1, "ok", NoMsg)
        ELSE /\ lastOp' = Op("advertise", 0, "HostResource", NoMsg)
             /\ UNCHANGED <<pubs, advertised>>
    /\ UNCHANGED <<topic, subs, lastPub, prevPub, runVars>>

\* A publish that only the first time stores the value on the bus.
OrbPublishFirstOnly ==
    /\ \E h \in DOMAIN pubs, v \in Messages, ok \in BOOLEAN :
        IF pubs[h] = "closed"
        THEN /\ lastOp' = Op("publish", h, "Closed", NoMsg)
             /\ UNCHANGED <<topic, lastPub, prevPub>>
        ELSE IF ~ok
        THEN /\ lastOp' = Op("publish", h, "Transmission", NoMsg)
             /\ UNCHANGED <<topic, lastPub, prevPub>>
        ELSE /\ topic' = IF topic = << >> THEN Encode(v) ELSE topic
             /\ prevPub' = lastPub
             /\ lastPub' = v
             /\ lastOp' = Op("publish", h, "ok", NoMsg)
    /\ UNCHANGED <<advertised, pubs, subs, runVars>>

\* publish(&value): copies the whole fixed-layout value to the bus, which
\* keeps the latest value only; fails with Closed on a released handle and
\* with a transmission error when the bus refuses.
OrbPublish ==
    /\ \E h \in DOMAIN pubs, v \in Messages, ok \in BOOLEAN :
        IF pubs[h] = "closed"
        THEN /\ lastOp' = Op("publish", h, "Closed", NoMsg)
             /\ UNCHANGED <<topic, lastPub, prevPub>>
        ELSE IF ~ok
        THEN /\ lastOp' = Op("publish", h, "Transmission", NoMsg)
             /\ UNCHANGED <<topic, lastPub, prevPub>>
        ELSE /\ topic' = Encode(v)
             /\ prevPub' = lastPub
             /\ lastPub' = v
             /\ lastOp' = Op("publish", h, "ok", NoMsg)
    /\ UNCHANGED <<advertised, pubs, subs, runVars>>

\* Dropping a Publisher handle unadvertises; the bus keeps the latest value.
OrbDropPublisher ==
    /\ \E h \in DOMAIN pubs :
        /\ pubs[h] = "open"
        /\ pubs' = [pubs EXCEPT ![h] = "closed"]
        /\ lastOp' = Op("unadvertise", h, "ok", NoMsg)
    /\ advertised' = advertised - 1
    /\ UNCHANGED <<topic, subs, lastPub, prevPub, runVars>>

\* subscribe(): a new Subscriber handle, or NotFound when the topic has no
\* publisher on the bus.
OrbSubscribe ==
    /\ Len(subs) < MaxHandles
    /\ IF advertised = 0
       THEN /\ lastOp' = Op("subscribe", 0, "NotFound", NoMsg)
            /\ UNCHANGED subs
       ELSE /\ subs' = Append(subs, "open")
            /\ lastOp' = Op("subscribe", Len(subs) + 1, "ok", NoMsg)
    /\ UNCHANGED <<topic, advertised, pubs, lastPub, prevPub, runVars>>

\* A get that hands out a zero-initialized buffer when the bus has no data.
OrbGetZeroed ==
    /\ \E h \in DOMAIN subs :
        /\ subs[h] = "open"
        /\ lastOp' = IF topic = << >>
                     THEN Op("get", h, "ok", Decode([k \in 1..16 |-> 0]))
                     ELSE Op("get", h, "ok", Decode(topic))
    /\ UNCHANGED <<topic, advertised, pubs, subs, lastPub, prevPub, runVars>>

\* get(): a non-blocking copy of the latest value on the bus, or Unavailable
\* when the topic has never carried one.
OrbGet ==
    /\ \E h \in DOMAIN subs :
        /\ subs[h] = "open"
        /\ lastOp' = IF topic = << >>
                     THEN Op("get", h, "Unavailable", NoMsg)
                     ELSE Op("get", h, "ok", Decode(topic))
    /\ UNCHANGED <<topic, advertised, pubs, subs, lastPub, prevPub, runVars>>

\* Dropping a Subscriber handle unsubscribes.
OrbDropSubscriber ==
    /\ \E h \in DOMAIN subs :
        /\ subs[h] = "open"
        /\ subs' = [subs EXCEPT ![h] = "closed"]
        /\ lastOp' = Op("unsubscribe", h, "ok", NoMsg)
    /\ UNCHANGED <<topic, advertised, pubs, lastPub, prevPub, runVars>>

OrbNext ==
    \/ OrbAdvertise
    \/ OrbPublish
    \/ OrbDropPublisher
    \/ OrbSubscribe
    \/ OrbGet
    \/ OrbDropSubscriber

OrbSpec == Init /\ [][OrbNext]_vars

\* ----------------------------------------------------------------- claims

\* The argument vector holds only valid text / holds some invalid text.
AllValid == \A k \in 1..Len(hostArgs) : ValidUtf8(hostArgs[k], 1)
SomeInvalid == \E k \in 1..Len(hostArgs) : ~ValidUtf8(hostArgs[k], 1)

\* The closure is over: catch_unwind returned, or _run itself has ended.
ClosureOver == pc \in {"caught", "returned", "escaped"}

\* The panic status code of a return type that has one.
PanicCodeOf(r) == IF r = "user_override" THEN 101 ELSE -1

\* The status a normally returned value of a built-in type stands for.
NormalCodeOf(r, v) ==
    CASE r = "unit"        -> 0
      [] r = "i32"         -> v.n
      [] r = "result_unit" -> IF v.tag = "ok" THEN 0 ELSE 1
      [] r = "result_i32"  -> IF v.tag = "ok" THEN 0 ELSE v.n
      [] OTHER             -> v.n

\* C1: when every element of the argument vector is valid UTF-8, one call
\* of _run enters the user function exactly once, with a slice of the same
\* length holding the same texts in the same order; with argc = 0 the slice
\* is empty and no element of argv is read.
C1_ArgsDelivered ==
    /\ fCalls <= 1
    /\ (AllValid /\ (pc = "in_f" \/ ClosureOver)) =>
          /\ fCalls = 1
          /\ Len(fArgs) = Len(hostArgs)
          /\ fArgs = hostArgs
          /\ argvReads = argc
    /\ (argc = 0 /\ pc # "idle") => argvReads = 0

C1_Witness ==
    /\ pc = "returned"
    /\ argc = 3
    /\ AllValid
    /\ hostArgs[1] = <<65>> /\ hostArgs[2] = <<195, 169>> /\ hostArgs[3] = << >>
    /\ fCalls = 1
    /\ fArgs = hostArgs

\* C2: when the argument vector holds invalid text at any position, _run
\* never enters the user function, the closure ends in a panic, and _run
\* returns the panic status code of the return type (every return type
\* whose panic_status_code yields one).
C2_InvalidNeverRuns ==
    SomeInvalid =>
        /\ fCalls = 0
        /\ pc # "in_f"
        /\ ClosureOver => (~result.ok /\ cause = "decode")
        /\ pc = "returned" => status = PanicCodeOf(R)
        /\ pc = "escaped" => R = "user_psc_panics"

C2_Witness ==
    /\ pc = "returned"
    /\ argc = 3
    /\ ValidUtf8(hostArgs[1], 1) /\ ~ValidUtf8(hostArgs[2], 1) /\ ValidUtf8(hostArgs[3], 1)
    /\ fCalls = 0
    /\ status = -1

\* C3: when the user function completes normally, _run returns 0 for unit,
\* k for the integer k, 0 for Ok and 1 for Err of Result<(), ()>, 0 for Ok
\* and the code for Err(code) of Result<(), i32>.
C3_StatusMapping ==
    (pc = "returned" /\ ret # NoRet /\ R \in BuiltinTypes) =>
        /\ R = "unit" => status = 0
        /\ R = "i32" => status = ret.n
        /\ (R = "result_unit" /\ ret.tag = "ok") => status = 0
        /\ (R = "result_unit" /\ ret.tag = "err_unit") => status = 1
        /\ (R = "result_i32" /\ ret.tag = "ok") => status = 0
        /\ (R = "result_i32" /\ ret.tag = "err") => status = ret.n

C3_Witness ==
    /\ pc = "returned"
    /\ R = "result_i32"
    /\ ret = [tag |-> "err", n |-> I32Min]
    /\ status = I32Min

\* C4: when the user function panics, _run returns the panic status code of
\* its return type (-1, or the overriding value), and an invocation that
\* follows a panicked one returns the status its own arguments and user
\* function determine.
C4_PanicStatus ==
    /\ (pc = "returned" /\ cause = "user") => status = PanicCodeOf(R)
    /\ (pc = "escaped" /\ cause = "user") => R = "user_psc_panics"
    /\ (pc = "returned" /\ prev = "user") =>
          status = IF cause # "none" THEN PanicCodeOf(R) ELSE NormalCodeOf(R, ret)

C4_Witness ==
    /\ pc = "returned"
    /\ prev = "user"
    /\ cause = "none"
    /\ R = "i32"
    /\ ret.n = 1
    /\ status = 1

\* C5: no panic raised by module code ever propagates out of _run: every
\* invocation ends by returning a status, also when the return type's
\* to_status_code or panic_status_code panics.
C5_NoPanicEscapes == pc # "escaped"

\* C6: in every invocation the logging sink is set up for the module before
\* any argument is decoded and before the user function is entered, and it
\* stays so until _run ends.
C6_LoggerReady ==
    (pc \in {"decode", "in_f", "caught", "returned"} \/ argvReads > 0 \/ fCalls > 0) =>
        /\ logger = modulename
        /\ hook

C6_Witness ==
    /\ pc = "in_f"
    /\ prev # "none"
    /\ modulename = "mod_b"
    /\ logger = "mod_b"
    /\ argvReads = 2

C8_LatestValue ==
    (lastOp.op = "get" /\ lastPub # NoMsg) =>
        /\ lastOp.res = "ok"
        /\ lastOp.value.timestamp = lastPub.timestamp
        /\ lastOp.value.value = lastPub.value
        /\ lastOp.value.ind = lastPub.ind

C8_Witness ==
    /\ lastOp.op = "get"
    /\ lastOp.res = "ok"
    /\ prevPub = Msg(<<0, 0, 0, 0, 0, 0, 0, 0>>, <<0, 0, 128, 63>>, <<3>>)
    /\ lastOp.value = Msg(<<100, 0, 0, 0, 0, 0, 0, 0>>, <<0, 0, 32, 192>>, <<7>>)

\* C9: get on a Subscriber handle of a topic nothing was ever published on
\* fails with Unavailable and returns no value.
C9_Unavailable ==
    (lastOp.op = "get" /\ lastPub = NoMsg) =>
        /\ lastOp.res = "Unavailable"
        /\ lastOp.value = NoMsg

C9_Witness ==
    /\ lastOp.op = "get"
    /\ lastOp.res = "Unavailable"
    /\ lastPub = NoMsg
    /\ topic = << >>

\* C10: with the default panic status code, for () and Result<(), ()> _run
\* returns -1 exactly when the invocation ended in a user-code panic or an
\* argument-decode failure, while for i32 and Result<(), i32> a normal
\* completion returns -1 exactly when the value or failure code is -1.
C10_MinusOneAmbiguous ==
    pc = "returned" =>
        /\ R \in {"unit", "result_unit"} =>
              (status = -1 <=> cause \in {"user", "decode"})
        /\ (R \in {"i32", "result_i32"} /\ cause = "none") =>
              (status = -1 <=> (ret.tag \in {"int", "err"} /\ ret.n = -1))

C10_Witness ==
    /\ pc = "returned"
    /\ R = "i32"
    /\ cause = "none"
    /\ ret.n = -1
    /\ status = -1

====
